---- MODULE Spec2Model ----
(***************************************************************************)
(* Dependable Painting worker: the chat session (Durable Object), the      *)
(* notification queue it and the HTTP handlers feed, and the queue         *)
(* consumer that dispatches SMS / email notifications and analytics.       *)
(***************************************************************************)
EXTENDS Integers, Sequences, FiniteSets, TLC

VARIABLES
    env,          \* the Worker's bindings: which secrets / ids are set
    storage,      \* ChatSession state.storage 'history', per session key
    calls,        \* the ChatSession.fetch invocations in flight
    nCalls,       \* number of chat calls started
    last,         \* the chat call that ended most recently, with its response
    notifyQueue,  \* bodies sent to NOTIFY_QUEUE, in send order
    qpc,          \* position of the queue() batch handler
    batchLen,     \* number of messages of the batch being handled
    outcomes,     \* ack()/retry() counts of the batch's messages handled so far
    cur,          \* the message the for-loop is handling, with what was done for it
    qualifier,    \* an invocation of detectHighValueLead: its arguments and result
    db,           \* rows of the Leads table, in insertion order
    http,         \* the estimate / analytics request being handled, with its response
    nHttp,        \* number of estimate / analytics requests received
    orchEnv,      \* the orchestrator worker's bindings
    orch,         \* the orchestrator request being handled, with its response
    taskQueue     \* messages sent to TASK_QUEUE, in send order

vars == <<env, storage, calls, nCalls, last, notifyQueue, qpc, batchLen, outcomes, cur,
          qualifier, db, http, nHttp, orchEnv, orch, taskQueue>>

leadVars == <<db, http, nHttp>>

orchVars == <<orchEnv, orch, taskQueue>>

chatVars == <<storage, calls, nCalls, last, notifyQueue>>
queueVars == <<qpc, batchLen, outcomes, cur>>

(***************************************************************************)
(* JavaScript values, as far as the handlers distinguish them.             *)
(***************************************************************************)
Undef == [t |-> "undefined", s |-> ""]
Str(x) == [t |-> "string", s |-> x]
\* a truthy value that is not a string (a number in a JSON body)
NonStr == [t |-> "number", s |-> "5"]

Truthy(v) == v.t = "number" \/ (v.t = "string" /\ v.s # "")

UpperCase == "ABCDEFGHIJKLMNOPQRSTUVWXYZ"
LowerCase == "abcdefghijklmnopqrstuvwxyz"

LowerChar(c) ==
    IF \E i \in 1..26 : SubSeq(UpperCase, i, i) = c
    THEN LET i == CHOOSE j \in 1..26 : SubSeq(UpperCase, j, j) = c
         IN SubSeq(LowerCase, i, i)
    ELSE c

RECURSIVE toLowerCase(_)
toLowerCase(str) ==
    IF str = "" THEN ""
    ELSE LowerChar(SubSeq(str, 1, 1)) \o toLowerCase(SubSeq(str, 2, Len(str)))

\* String.prototype.includes: keyword occurs as a substring
includes(text, keyword) ==
    \E i \in 1..(Len(text) - Len(keyword) + 1) :
        SubSeq(text, i, i + Len(keyword) - 1) = keyword

\* (v || ''): the value when truthy, else the empty string
OrEmpty(v) == IF Truthy(v) THEN v ELSE Str("")

\* x.toLowerCase() raises a TypeError when x is not a string
LowerThrows(v) == v.t # "string"

(***************************************************************************)
(* Worker bindings (types.json Env): TRUE when the variable is set.        *)
(***************************************************************************)
MkEnv(sid, tok, phone, sendgrid, ga, ads) ==
    [TWILIO_ACCOUNT_SID |-> sid, TWILIO_AUTH_TOKEN |-> tok,
     TWILIO_PHONE_NUMBER |-> phone, SENDGRID_API_KEY |-> sendgrid,
     GA_MEASUREMENT_ID |-> ga, GOOGLE_ADS_CONVERSION_ID |-> ads]

Envs ==
    { MkEnv(TRUE, TRUE, TRUE, TRUE, TRUE, TRUE),
      MkEnv(TRUE, TRUE, TRUE, TRUE, TRUE, FALSE),
      MkEnv(TRUE, FALSE, TRUE, TRUE, TRUE, TRUE),
      MkEnv(TRUE, TRUE, TRUE, FALSE, TRUE, TRUE),
      MkEnv(FALSE, FALSE, FALSE, TRUE, FALSE, FALSE),
      MkEnv(FALSE, FALSE, FALSE, FALSE, FALSE, FALSE) }

\* result of an outbound HTTP call to an external sink
SinkResults == {"ok", "nonok", "neterr"}

(***************************************************************************)
(* Queue message bodies.  t is the JSON type of the body: an object, a     *)
(* string (the text of a serialized object, whose properties read as       *)
(* undefined) or null.                                                     *)
(***************************************************************************)
MkBody(t, type, service, message, reply, page, leadValue) ==
    [t |-> t, type |-> type, service |-> service, message |-> message,
     reply |-> reply, page |-> page, leadValue |-> leadValue]

\* payload.<field> as the consumer reads it
Get(body, f) == IF body.t = "object" THEN body[f] ELSE Undef

\* reading a property of null raises a TypeError
GetThrows(body) == body.t = "null"

Kinds == {"estimate_request", "high_value_chat_lead", "call_conversion"}

BodyTypes == {Str(k) : k \in Kinds} \cup {Undef}
BodyServices == {Undef, Str("Interior Painting"), Str("Commercial Building"), NonStr}
BodyMessages == {Undef, Str("just curious"), Str("quote for my OFFICE asap")}
BodyLeadValues == {Undef, Str("high")}
BodyPage == Str("/commercial-painting")

Bodies ==
    { MkBody("object", ty, sv, mg, Undef, BodyPage, lv) :
        ty \in BodyTypes, sv \in BodyServices, mg \in BodyMessages,
        lv \in BodyLeadValues }
    \cup { MkBody("string", Str("estimate_request"), Str("Commercial Building"),
                  Str("just curious"), Undef, Undef, Undef),
           MkBody("null", Undef, Undef, Undef, Undef, Undef, Undef) }

(***************************************************************************)
(* NotificationService (lib/notifications).                                *)
(***************************************************************************)
\* a channel operation that was not invoked
NoCall == [called |-> FALSE, out |-> FALSE, res |-> "none", ok |-> FALSE, threw |-> FALSE]

\* mutant of sendSMS: the fetch is not wrapped in try/catch
sendSMS_NoCatch(e, res) ==
    IF ~e.TWILIO_ACCOUNT_SID \/ ~e.TWILIO_AUTH_TOKEN \/ ~e.TWILIO_PHONE_NUMBER
    THEN [called |-> TRUE, out |-> FALSE, res |-> "none", ok |-> FALSE, threw |-> FALSE]
    ELSE [called |-> TRUE, out |-> TRUE, res |-> res, ok |-> res = "ok",
          threw |-> res = "neterr"]

\* mutant of sendSMS: the configuration check is missing
sendSMS_NoConfigCheck(e, res) ==
    [called |-> TRUE, out |-> TRUE, res |-> res, ok |-> res = "ok", threw |-> FALSE]

\* called: the method was invoked; out: an outbound request was made; ok: its
\* boolean result; threw: an exception left the method
sendSMS(e, res) ==
    IF ~e.TWILIO_ACCOUNT_SID \/ ~e.TWILIO_AUTH_TOKEN \/ ~e.TWILIO_PHONE_NUMBER
    THEN [called |-> TRUE, out |-> FALSE, res |-> "none", ok |-> FALSE, threw |-> FALSE]
    ELSE [called |-> TRUE, out |-> TRUE, res |-> res, ok |-> res = "ok", threw |-> FALSE]

\* mutant of sendEmail: the fetch is not wrapped in try/catch
sendEmail_NoCatch(e, res) ==
    IF ~e.SENDGRID_API_KEY
    THEN [called |-> TRUE, out |-> FALSE, res |-> "none", ok |-> FALSE, threw |-> FALSE]
    ELSE [called |-> TRUE, out |-> TRUE, res |-> res, ok |-> res = "ok",
          threw |-> res = "neterr"]

\* mutant of sendEmail: any response, whatever its status, counts as success
sendEmail_AnyResponse(e, res) ==
    IF ~e.SENDGRID_API_KEY
    THEN [called |-> TRUE, out |-> FALSE, res |-> "none", ok |-> FALSE, threw |-> FALSE]
    ELSE [called |-> TRUE, out |-> TRUE, res |-> res, ok |-> res # "neterr", threw |-> FALSE]

sendEmail(e, res) ==
    IF ~e.SENDGRID_API_KEY
    THEN [called |-> TRUE, out |-> FALSE, res |-> "none", ok |-> FALSE, threw |-> FALSE]
    ELSE [called |-> TRUE, out |-> TRUE, res |-> res, ok |-> res = "ok", threw |-> FALSE]

commercialKeywords ==
    {"commercial", "business", "office", "restaurant", "store", "warehouse", "retail"}

\* (payload.service || '').toLowerCase() or the same on message raises
isCommercialLeadThrows(payload) ==
    \/ LowerThrows(OrEmpty(Get(payload, "service")))
    \/ LowerThrows(OrEmpty(Get(payload, "message")))

\* the texts that occur as service or message of a body
BodyTexts == {""} \cup {v.s : v \in BodyServices \cup BodyMessages}

\* the keyword match of isCommercialLead on (service, message) texts, tabulated
commercialMatch ==
    [sv \in BodyTexts, mg \in BodyTexts |->
        LET serviceText == toLowerCase(sv)
            messageText == toLowerCase(mg)
        IN \E keyword \in commercialKeywords :
               includes(serviceText, keyword) \/ includes(messageText, keyword)]

isCommercialLead(payload) ==
    commercialMatch[OrEmpty(Get(payload, "service")).s,
                    OrEmpty(Get(payload, "message")).s]

\* mutant of isHighPriority: the keyword match is not consulted
isHighPriority_NoKeywords(payload) ==
    \/ Get(payload, "type") = Str("high_value_chat_lead")
    \/ Get(payload, "leadValue") = Str("high")

\* processNotification's isHighPriority; || short-circuits, so isCommercialLead
\* runs only when the first two tests are false
isHighPriority(payload) ==
    \/ Get(payload, "type") = Str("high_value_chat_lead")
    \/ Get(payload, "leadValue") = Str("high")
    \/ isCommercialLead(payload)

isHighPriorityThrows(payload) ==
    /\ Get(payload, "type") # Str("high_value_chat_lead")
    /\ Get(payload, "leadValue") # Str("high")
    /\ isCommercialLeadThrows(payload)

\* mutant of Dispatch: a failed first channel call ends the handler
Dispatch_StopOnFailure(sms, email) ==
    IF sms.threw \/ (sms.out /\ ~sms.ok)
    THEN [sms |-> sms, email |-> NoCall, threw |-> sms.threw]
    ELSE [sms |-> sms, email |-> email, threw |-> email.threw]

\* two awaited channel calls in sequence: an exception of the first skips the second
Dispatch(sms, email) ==
    IF sms.threw
    THEN [sms |-> sms, email |-> NoCall, threw |-> TRUE]
    ELSE [sms |-> sms, email |-> email, threw |-> email.threw]

NoDispatch(threw) == [sms |-> NoCall, email |-> NoCall, threw |-> threw]

handleEstimateNotification(payload, highPriority, e, smsRes, emailRes) ==
    Dispatch(IF highPriority THEN sendSMS(e, smsRes) ELSE NoCall,
             sendEmail(e, emailRes))

\* payload.message?.substring(0, 100) raises unless message is nullish or a string
SubstringThrows(v) == v.t \notin {"undefined", "string"}

handleChatLeadNotification(payload, e, smsRes, emailRes) ==
    IF SubstringThrows(Get(payload, "message"))
    THEN NoDispatch(TRUE)
    ELSE Dispatch(sendSMS(e, smsRes), sendEmail(e, emailRes))

\* mutant of handleCallConversion: the body of the chat-lead handler
handleCallConversion_WithSMS(payload, e, smsRes, emailRes) ==
    Dispatch(sendSMS(e, smsRes), sendEmail(e, emailRes))

handleCallConversion(payload, e, smsRes, emailRes) ==
    Dispatch(NoCall, sendEmail(e, emailRes))

processNotification(payload, e, smsRes, emailRes) ==
    IF GetThrows(payload) \/ isHighPriorityThrows(payload)
    THEN NoDispatch(TRUE)
    ELSE IF Get(payload, "type") = Str("estimate_request")
    THEN handleEstimateNotification(payload, isHighPriority(payload), e, smsRes, emailRes)
    ELSE IF Get(payload, "type") = Str("high_value_chat_lead")
    THEN handleChatLeadNotification(payload, e, smsRes, emailRes)
    ELSE IF Get(payload, "type") = Str("call_conversion")
    THEN handleCallConversion(payload, e, smsRes, emailRes)
    ELSE NoDispatch(FALSE)

(***************************************************************************)
(* AnalyticsService (lib/analytics).  A tracking method yields the events  *)
(* sent to the GA4 sink and whether an exception left it.                  *)
(***************************************************************************)
NoEvents == [events |-> <<>>, threw |-> FALSE]

MkEvent(name, label, value) == [name |-> name, label |-> label, value |-> value]

\* mutant of trackGA4Event: the fetch is not wrapped in try/catch
trackGA4Event_NoCatch(e, event, res) ==
    IF ~e.GA_MEASUREMENT_ID
    THEN NoEvents
    ELSE [events |-> << [event |-> event, res |-> res] >>, threw |-> res = "neterr"]

trackGA4Event(e, event, res) ==
    IF ~e.GA_MEASUREMENT_ID
    THEN NoEvents
    ELSE [events |-> << [event |-> event, res |-> res] >>, threw |-> FALSE]

\* its try/catch swallows whatever trackGA4Event raises
trackGoogleAdsConversion(e, conversionAction, value, res) ==
    IF ~e.GOOGLE_ADS_CONVERSION_ID
    THEN NoEvents
    ELSE [events |-> trackGA4Event(e, MkEvent("conversion", conversionAction, value), res).events,
          threw |-> FALSE]

\* Promise.all of two started calls: both run, either rejection rejects the whole
Both(a, b) == [events |-> a.events \o b.events, threw |-> a.threw \/ b.threw]

trackPhoneCall(e, page, r1, r2) ==
    Both(trackGA4Event(e, MkEvent("phone_call", "click_to_call", 50), r1),
         trackGoogleAdsConversion(e, "phone_call_conversion", 50, r2))

\* calculateLeadValue on (service, message) texts, tabulated
leadValueOf ==
    [sv \in BodyTexts, mg \in BodyTexts |->
        LET service == toLowerCase(sv)
            message == toLowerCase(mg)
        IN 25
           + (IF commercialMatch[sv, mg] THEN 75 ELSE 0)
           + (IF includes(service, "exterior") \/ includes(service, "commercial") THEN 50
              ELSE IF includes(service, "interior") \/ includes(service, "cabinet") THEN 25
              ELSE 0)
           + (IF includes(message, "urgent") \/ includes(message, "asap")
                 \/ includes(message, "soon") THEN 25 ELSE 0)]

calculateLeadValue(formData) ==
    leadValueOf[OrEmpty(Get(formData, "service")).s,
                OrEmpty(Get(formData, "message")).s]

trackFormSubmission(e, formData, r1, r2) ==
    IF isCommercialLeadThrows(formData)
    THEN [events |-> <<>>, threw |-> TRUE]
    ELSE Both(trackGA4Event(e, MkEvent("form_submit", "estimate_request",
                                       calculateLeadValue(formData)), r1),
              trackGoogleAdsConversion(e, "estimate_request_conversion",
                                       calculateLeadValue(formData), r2))

trackBusinessEvent(e, eventName, label, value, res) ==
    trackGA4Event(e, MkEvent(eventName, label, value), res)

(***************************************************************************)
(* The queue consumer (queue.ts): for each message of the batch, in order, *)
(* the try block runs processNotification and the analytics call of the    *)
(* payload's type, then ack(); the catch block calls retry().              *)
(***************************************************************************)
\* largest batch delivered
MaxBatch == 2

NoMsg ==
    [state |-> "none", body |-> MkBody("null", Undef, Undef, Undef, Undef, Undef, Undef),
     sms |-> NoCall, email |-> NoCall, ga |-> <<>>, acks |-> 0, retries |-> 0]

\* try-block of the loop body up to, not including, message.ack()
tryBlock(payload, e, smsRes, emailRes, r1, r2) ==
    LET pn == processNotification(payload, e, smsRes, emailRes)
        an == IF pn.threw THEN NoEvents
              ELSE IF Get(payload, "type") = Str("estimate_request")
              THEN trackFormSubmission(e, payload, r1, r2)
              ELSE IF Get(payload, "type") = Str("high_value_chat_lead")
              THEN IF SubstringThrows(Get(payload, "message"))
                   THEN [events |-> <<>>, threw |-> TRUE]
                   ELSE trackBusinessEvent(e, "high_value_chat_detected",
                                           "chat_engagement", 25, r1)
              ELSE IF Get(payload, "type") = Str("call_conversion")
              THEN trackPhoneCall(e, OrEmpty(Get(payload, "page")), r1, r2)
              ELSE NoEvents
    IN [sms |-> pn.sms, email |-> pn.email, ga |-> an.events,
        threw |-> pn.threw \/ an.threw]

\* mutant of settle: ack() is called before the processing, retry() in the catch
settle_AckFirst(threw) ==
    [acks |-> 1, retries |-> IF threw THEN 1 ELSE 0,
     state |-> IF threw THEN "Retryable" ELSE "Acknowledged"]

\* message.ack() as the last statement of try, message.retry() in catch
settle(threw) ==
    IF threw
    THEN [acks |-> 0, retries |-> 1, state |-> "Retryable"]
    ELSE [acks |-> 1, retries |-> 0, state |-> "Acknowledged"]

\* queue() is invoked with a batch of n messages
QueueDeliver(n) ==
    /\ qpc \in {"idle", "returned"}
    /\ qpc' = "loop"
    /\ batchLen' = n
    /\ outcomes' = <<>>
    /\ cur' = NoMsg
    /\ UNCHANGED <<env, leadVars, qualifier, orchVars, chatVars>>

Settled(m) == m.state \in {"Acknowledged", "Retryable"}

\* what is remembered of a message once the loop has moved past it
Outcome(m) == [acks |-> m.acks, retries |-> m.retries]

Handled == IF cur.state = "none" THEN outcomes ELSE Append(outcomes, Outcome(cur))

\* the for-loop takes the next message of the batch; its body is `body`
QueueTake(body) ==
    /\ qpc = "loop"
    /\ cur.state = "none" \/ Settled(cur)
    /\ Len(Handled) < batchLen
    /\ outcomes' = Handled
    /\ cur' = [NoMsg EXCEPT !.state = "Processing", !.body = body]
    /\ UNCHANGED <<env, leadVars, qualifier, orchVars, chatVars, qpc, batchLen>>

\* mutant of QueueSettle: the priority found is written into the payload
QueueSettle_TagsPayload(smsRes, emailRes, r1, r2) ==
    /\ qpc = "loop"
    /\ cur.state = "Processing"
    /\ LET r == tryBlock(cur.body, env, smsRes, emailRes, r1, r2)
           o == settle(r.threw)
       IN cur' = [cur EXCEPT !.state = o.state, !.sms = r.sms, !.email = r.email,
                             !.ga = r.ga, !.acks = o.acks, !.retries = o.retries,
                             !.body.leadValue =
                                 IF r.sms.called THEN Str("high") ELSE @]
    /\ UNCHANGED <<env, leadVars, qualifier, orchVars, chatVars, qpc, batchLen, outcomes>>

\* the awaited calls of the try block resolve with the given sink results
QueueSettle(smsRes, emailRes, r1, r2) ==
    /\ qpc = "loop"
    /\ cur.state = "Processing"
    /\ LET r == tryBlock(cur.body, env, smsRes, emailRes, r1, r2)
           o == settle(r.threw)
       IN cur' = [cur EXCEPT !.state = o.state, !.sms = r.sms, !.email = r.email,
                             !.ga = r.ga, !.acks = o.acks, !.retries = o.retries]
    /\ UNCHANGED <<env, leadVars, qualifier, orchVars, chatVars, qpc, batchLen, outcomes>>

\* mutant of QueueReturn: an exception of a message's processing leaves the loop
QueueReturn_AbortOnRetry ==
    /\ qpc = "loop"
    /\ Settled(cur)
    /\ Len(Handled) = batchLen \/ cur.state = "Retryable"
    /\ qpc' = "returned"
    /\ outcomes' = Handled
    /\ cur' = NoMsg
    /\ UNCHANGED <<env, leadVars, qualifier, orchVars, chatVars, batchLen>>

\* the loop is exhausted and queue() returns
QueueReturn ==
    /\ qpc = "loop"
    /\ Settled(cur)
    /\ Len(Handled) = batchLen
    /\ qpc' = "returned"
    /\ outcomes' = Handled
    /\ cur' = NoMsg
    /\ UNCHANGED <<env, leadVars, qualifier, orchVars, chatVars, batchLen>>

(***************************************************************************)
(* ChatSession (chatsession.ts), reached through handleChat, which maps     *)
(* the X-Session-ID header to one Durable Object per session key.           *)
(***************************************************************************)
\* chat calls that can be in flight at once
MaxInFlight == 2
\* chat calls started in a behaviour
MaxCalls == 2

\* X-Session-ID values that callers choose on their own
ClientKeys == {"k1", "k2"}

\* crypto.randomUUID() of the n-th chat call: a key no caller ever chose
randomUUID(n) == "u" \o ToString(n)

\* CHAT_SESSIONS.idFromName(name): the object id derived from the name, one
\* per name.  id.toString() is the id's own text.
idFromName(name) == "#" \o name

\* the ids idFromName yields for `names`, for the texts of those ids, and so
\* on, `depth` times
RECURSIVE IdsFrom(_, _)
IdsFrom(names, depth) ==
    IF depth = 0 THEN {}
    ELSE LET ids == {idFromName(name) : name \in names}
         IN ids \cup IdsFrom(ids, depth - 1)

\* the Durable Objects the chat calls of a behaviour can address
Sessions == IdsFrom(ClientKeys \cup {randomUUID(n) : n \in 1..MaxCalls}, MaxCalls)

Slots == 1..MaxInFlight

\* the request bodies sent to /api/chat: `message` and `page`, Undef when the
\* field is missing
ChatRequests ==
    { [message |-> Str("Do you do commercial office painting?"), page |-> Str("/services")],
      [message |-> Str("Do you do commercial office painting?"), page |-> Undef],
      [message |-> Str("hello"), page |-> Str("/services")],
      [message |-> Undef, page |-> Undef] }

ChatMessages == {req.message : req \in ChatRequests}

ReplyText == "We paint offices. Call (251) 525-4405."

\* what the AI gateway call yields: the transport outcome, the HTTP status class
\* and the shape of the response body
MkAI(transport, status, body) == [transport |-> transport, status |-> status, body |-> body]

AIResponses ==
    { MkAI("error", "none", "none"),
      MkAI("ok", "ok", "nonjson"),
      MkAI("ok", "nonok", "error_object"),
      MkAI("ok", "ok", "no_content"),
      MkAI("ok", "nonok", "content"),
      MkAI("ok", "ok", "content") }

NoAI == MkAI("none", "none", "none")

\* fetch(), aiResponse.json() and json.choices[0].message.content: the fetch
\* rejects on a transport error, json() rejects on a body that is not JSON, the
\* property chain raises when choices[0].message is missing, and a message
\* without content reads as undefined
completion(ai) ==
    IF ai.transport = "error" \/ ai.body \in {"nonjson", "error_object"}
    THEN [threw |-> TRUE, reply |-> Undef]
    ELSE IF ai.body = "no_content"
    THEN [threw |-> FALSE, reply |-> Undef]
    ELSE [threw |-> FALSE, reply |-> Str(ReplyText)]

highValueKeywords ==
    {"commercial", "business", "office", "restaurant", "store",
     "whole house", "entire house", "multiple rooms",
     "exterior", "siding", "trim",
     "estimate", "quote", "price", "cost",
     "when can you start", "schedule", "appointment",
     "budget", "timeline", "project"}

\* the user messages detectHighValueLead is invoked with on its own
QualifierMessages ==
    { Str("commercial"), Str("Commercial Building"), Str("hello"),
      Str("Can you restore my deck?"), Str("What is the PRICE?"),
      Str("I need my fence stained"), Str(""), Undef }

\* the replies it is invoked with: a missing content, and texts with and
\* without a keyword
QualifierReplies == { Undef, Str(ReplyText), Str("Sure.") }

\* the keyword match of detectHighValueLead on the message texts, tabulated
highValueMatch ==
    [m \in {v.s : v \in ChatMessages \cup QualifierMessages} |->
        LET messageText == toLowerCase(m)
        IN \E keyword \in highValueKeywords : includes(messageText, keyword)]

\* message.toLowerCase() raises when the message is missing
detectHighValueLeadThrows(message, reply) == LowerThrows(message)

\* mutant of detectHighValueLead: the reply is searched as well
detectHighValueLead_WithReply(message, reply) ==
    \E keyword \in highValueKeywords :
        \/ includes(toLowerCase(message.s), keyword)
        \/ includes(toLowerCase(reply.s), keyword)

detectHighValueLead(message, reply) == highValueMatch[message.s]

NoQualifier ==
    [pc |-> "none", message |-> Undef, reply |-> Undef, result |-> FALSE, threw |-> FALSE]

\* this.detectHighValueLead(message, reply) inside a session whose storage
\* holds some history
Qualify ==
    /\ qualifier.pc = "called"
    /\ qualifier' =
           IF detectHighValueLeadThrows(qualifier.message, qualifier.reply)
           THEN [qualifier EXCEPT !.pc = "returned", !.threw = TRUE]
           ELSE [qualifier EXCEPT
                    !.pc = "returned",
                    !.result = detectHighValueLead(qualifier.message, qualifier.reply)]
    /\ UNCHANGED <<env, leadVars, orchVars, chatVars, queueVars>>

\* page || 'unknown'
OrUnknown(page) == IF Truthy(page) THEN page ELSE Str("unknown")

\* mutant of chatLeadBody: the page is not taken from the request
chatLeadBody_NoPage(message, reply, page) ==
    MkBody("string", Str("high_value_chat_lead"), Undef, message, reply,
           Str("unknown"), Undef)

\* the body given to NOTIFY_QUEUE.send: the JSON text of the lead object
chatLeadBody(message, reply, page) ==
    MkBody("string", Str("high_value_chat_lead"), Undef, message, reply,
           OrUnknown(page), Undef)

\* trackChatInteraction as called with four arguments: isHighValue is undefined,
\* and reply.length raises inside the promise when the reply is undefined
trackChatInteraction(e, message, reply, res) ==
    IF reply.t # "string"
    THEN [events |-> <<>>, threw |-> TRUE]
    ELSE trackGA4Event(e, MkEvent("chat_interaction", "chat_message", 5), res)

userTurn(message) == [role |-> "user", content |-> message]
assistantTurn(reply) == [role |-> "assistant", content |-> reply]

\* the system turn that opens every completion request
systemTurn == [role |-> "system", content |-> Str("You are Paint Guru")]

\* a value inside a template literal
Interpolated(v) == IF v.t = "undefined" THEN "undefined" ELSE v.s

\* the user turn of the request: `${message} (from ${page || 'website'})`
promptTurn(message, page) ==
    [role |-> "user",
     content |-> Str(Interpolated(message) \o " (from "
                     \o (IF Truthy(page) THEN page.s ELSE "website") \o ")")]

\* mutant of completionRequest: the stored history is left out
completionRequest_NoHistory(history, message, page) ==
    << systemTurn, promptTurn(message, page) >>

\* payload.messages of the gateway request
completionRequest(history, message, page) ==
    << systemTurn >> \o history \o << promptTurn(message, page) >>

IdleCall ==
    [pc |-> "idle", header |-> Undef, s |-> "none", request |-> <<>>, message |-> Undef, page |-> Undef, history |-> <<>>,
     ai |-> NoAI, reply |-> Undef, isHighValue |-> FALSE, sendOk |-> TRUE,
     ga |-> <<>>, puts |-> 0, sent |-> 0, resp |-> "none"]

\* handleChat's session name: the X-Session-ID header || crypto.randomUUID()
sessionName(header, n) == IF Truthy(header) THEN header.s ELSE randomUUID(n)

\* mutant of ChatStart: the history is read from one store shared by all keys
ChatStart_SharedHistory(c, header, message, page) ==
    /\ calls[c].pc = "idle"
    /\ \A d \in Slots : d < c => calls[d].pc # "idle"
    /\ nCalls < MaxCalls
    /\ nCalls' = nCalls + 1
    /\ LET s == idFromName(sessionName(header, nCalls + 1))
       IN calls' = [calls EXCEPT ![c] =
                       [IdleCall EXCEPT !.pc = "awaitAI", !.header = header, !.s = s,
                                        !.message = message, !.page = page,
                                        !.history = storage[idFromName("k1")],
                                        !.request =
                                            completionRequest(storage[idFromName("k1")],
                                                              message, page)]]
    /\ UNCHANGED <<env, leadVars, qualifier, orchVars, storage, last, notifyQueue, queueVars>>

\* handleChat forwards the request to the object named by the header; there
\* request.json() and storage.get('history'), then the gateway request is issued
ChatStart(c, header, message, page) ==
    /\ calls[c].pc = "idle"
    /\ \A d \in Slots : d < c => calls[d].pc # "idle"
    /\ nCalls < MaxCalls
    /\ nCalls' = nCalls + 1
    /\ LET s == idFromName(sessionName(header, nCalls + 1))
       IN calls' = [calls EXCEPT ![c] =
                       [IdleCall EXCEPT !.pc = "awaitAI", !.header = header, !.s = s,
                                        !.message = message, !.page = page,
                                        !.history = storage[s],
                                        !.request =
                                            completionRequest(storage[s], message, page)]]
    /\ UNCHANGED <<env, leadVars, qualifier, orchVars, storage, last, notifyQueue, queueVars>>

\* mutant of updatedHistory: the assistant turn is left out
updatedHistory_UserOnly(call) == call.history \o << userTurn(call.message) >>

\* the value given to storage.put('history', ...)
updatedHistory(call) ==
    call.history \o << userTurn(call.message), assistantTurn(call.reply) >>

\* the call ends with an exception: handleChat's caller gets an error response
Fails(c, call) ==
    /\ calls' = [calls EXCEPT ![c] = IdleCall]
    /\ last' = [call EXCEPT !.pc = "failed", !.resp = "error"]
    /\ UNCHANGED storage

\* mutant of Persists: the two turns are appended to the history as it is
\* stored at the time of the write
Persists_Appending(c, call, gaRes) ==
    /\ storage' = [storage EXCEPT ![call.s] =
                       @ \o << userTurn(call.message), assistantTurn(call.reply) >>]
    /\ calls' = [calls EXCEPT ![c] = IdleCall]
    /\ last' = [call EXCEPT
                   !.pc = "done", !.puts = 1, !.resp = "ok",
                   !.ga = trackChatInteraction(env, call.message, call.reply, gaRes).events]

\* mutant of Persists: the analytics promise is awaited, so its rejection
\* and a failed request of it end the call
Persists_AwaitingAnalytics(c, call, gaRes) ==
    LET an == trackChatInteraction(env, call.message, call.reply, gaRes)
    IN IF an.threw \/ gaRes # "ok"
       THEN /\ calls' = [calls EXCEPT ![c] = IdleCall]
            /\ last' = [call EXCEPT !.pc = "failed", !.resp = "error", !.ga = an.events]
            /\ UNCHANGED storage
       ELSE /\ storage' = [storage EXCEPT ![call.s] = updatedHistory(call)]
            /\ calls' = [calls EXCEPT ![c] = IdleCall]
            /\ last' = [call EXCEPT !.pc = "done", !.puts = 1, !.resp = "ok",
                                    !.ga = an.events]

\* analytics is handed to waitUntil, the history is put, the response returned
Persists(c, call, gaRes) ==
    /\ storage' = [storage EXCEPT ![call.s] = updatedHistory(call)]
    /\ calls' = [calls EXCEPT ![c] = IdleCall]
    /\ last' = [call EXCEPT
                   !.pc = "done", !.puts = 1, !.resp = "ok",
                   !.ga = trackChatInteraction(env, call.message, call.reply, gaRes).events]

\* the call reaches NOTIFY_QUEUE.send: only then does the send's result matter
Sends(message, ai) ==
    /\ ~completion(ai).threw
    /\ ~detectHighValueLeadThrows(message, completion(ai).reply)
    /\ detectHighValueLead(message, completion(ai).reply)

\* the call reaches the analytics sink without waiting for a send: only then
\* does the sink's result matter
Tracks(message, ai) ==
    /\ ~completion(ai).threw
    /\ ~detectHighValueLeadThrows(message, completion(ai).reply)
    /\ ~detectHighValueLead(message, completion(ai).reply)
    /\ completion(ai).reply.t = "string"

\* the gateway call settles.  On an exception the call fails.  Otherwise the
\* lead is qualified; a high-value turn is sent to the queue (sendOk: the send
\* is accepted) and the call waits for the send to resolve; any other turn is
\* persisted and answered at once.
ChatCompletion(c, ai, sendOk, gaRes) ==
    /\ calls[c].pc = "awaitAI"
    /\ sendOk \/ Sends(calls[c].message, ai)
    /\ gaRes = "ok" \/ Tracks(calls[c].message, ai)
    /\ LET r == completion(ai)
           call == [calls[c] EXCEPT !.ai = ai, !.reply = r.reply]
       IN IF r.threw \/ detectHighValueLeadThrows(call.message, r.reply)
          THEN Fails(c, call) /\ UNCHANGED notifyQueue
          ELSE IF detectHighValueLead(call.message, r.reply)
          THEN IF sendOk
               THEN /\ notifyQueue' = Append(notifyQueue,
                                         chatLeadBody(call.message, r.reply, call.page))
                    /\ calls' = [calls EXCEPT ![c] =
                                    [call EXCEPT !.pc = "awaitSend", !.isHighValue = TRUE,
                                                 !.sent = 1]]
                    /\ UNCHANGED <<storage, last>>
               ELSE /\ Fails(c, [call EXCEPT !.isHighValue = TRUE, !.sendOk = FALSE])
                    /\ UNCHANGED notifyQueue
          ELSE Persists(c, call, gaRes) /\ UNCHANGED notifyQueue
    /\ UNCHANGED <<env, leadVars, qualifier, orchVars, nCalls, queueVars>>

\* NOTIFY_QUEUE.send has resolved: analytics, storage.put and the response
ChatPersist(c, gaRes) ==
    /\ calls[c].pc = "awaitSend"
    /\ gaRes = "ok" \/ calls[c].reply.t = "string"
    /\ Persists(c, calls[c], gaRes)
    /\ UNCHANGED <<env, leadVars, qualifier, orchVars, nCalls, notifyQueue, queueVars>>

(***************************************************************************)
(* The orchestrator worker (index.js of paint-dispatcher): /api/queue and   *)
(* /api/automation, with the /api/price and /api/enrich handlers that the   *)
(* automation steps call.                                                   *)
(***************************************************************************)
\* most steps in an automation request
MaxSteps == 2
\* orchestrator requests handled in a behaviour
MaxRequests == 2

MkOrchEnv(queue, key) == [TASK_QUEUE |-> queue, OPENAI_API_KEY |-> key]

OrchEnvs == { MkOrchEnv(q, k) : q \in BOOLEAN, k \in BOOLEAN }

\* an HTTP response of a handler: status and what its JSON body says
MkResponse(status, body) == [status |-> status, body |-> body]

\* the JSON value {} that `payload ?? {}` and `params || {}` put for a
\* missing value
EmptyObject == [t |-> "object", s |-> "{}"]

\* the fields of a request body or of a step's params that the handlers
\* read; t is "invalid" for a body that is not JSON
MkParams(t, taskName, payload, prompt) ==
    [t |-> t, taskName |-> taskName, payload |-> payload, prompt |-> prompt]

NoParams == MkParams("object", Undef, Undef, Undef)

\* handlePrice: the price object computed from the body's numbers, or 400
\* when request.json() or the destructuring raises
handlePrice(body) ==
    IF body.t # "object"
    THEN MkResponse(400, "error: Invalid input")
    ELSE MkResponse(200, "price")

\* mutant of handleQueue: the taskName is not required
handleQueue_NoValidation(body, e, sendOk) ==
    IF body.t # "object"
    THEN [resp |-> MkResponse(400, "error: Invalid input"), sent |-> <<>>]
    ELSE IF e.TASK_QUEUE
    THEN IF sendOk
         THEN [resp |-> MkResponse(200, "queued"),
               sent |-> << [taskName |-> body.taskName,
                            payload |-> IF body.payload = Undef THEN EmptyObject
                                        ELSE body.payload] >>]
         ELSE [resp |-> MkResponse(400, "error: Invalid input"), sent |-> <<>>]
    ELSE [resp |-> MkResponse(200, "queued"), sent |-> <<>>]

\* handleQueue: its response and the messages TASK_QUEUE accepted.  sendOk:
\* the send resolves; a rejected send is caught and answered 400.
handleQueue(body, e, sendOk) ==
    IF body.t # "object"
    THEN [resp |-> MkResponse(400, "error: Invalid input"), sent |-> <<>>]
    ELSE IF ~Truthy(body.taskName)
    THEN [resp |-> MkResponse(400, "error: taskName is required"), sent |-> <<>>]
    ELSE IF e.TASK_QUEUE
    THEN IF sendOk
         THEN [resp |-> MkResponse(200, "queued"),
               sent |-> << [taskName |-> body.taskName,
                            payload |-> IF body.payload = Undef THEN EmptyObject
                                        ELSE body.payload] >>]
         ELSE [resp |-> MkResponse(400, "error: Invalid input"), sent |-> <<>>]
    ELSE [resp |-> MkResponse(200, "queued"), sent |-> <<>>]

\* handleEnrich: aiRes is the outcome of the completion request
handleEnrich(body, e, aiRes) ==
    IF body.t # "object"
    THEN MkResponse(400, "error: Invalid input")
    ELSE IF ~(body.prompt.t = "string" /\ body.prompt.s # "")
    THEN MkResponse(400, "error: prompt is required")
    ELSE IF ~e.OPENAI_API_KEY
    THEN MkResponse(200, "message: No enrichment provider configured.")
    ELSE IF aiRes = "neterr"
    THEN MkResponse(400, "error: Invalid input")
    ELSE IF aiRes = "nonok"
    THEN MkResponse(200, "message: Failed to contact enrichment service.")
    ELSE MkResponse(200, "message: enriched")

\* bodies posted to /api/queue
QueueBodies ==
    { MkParams("object", Str("sendFollowUpEmail"), Str("lead 123"), Undef),
      MkParams("object", Str("sendFollowUpEmail"), Undef, Undef),
      MkParams("object", Str(""), Str("lead 123"), Undef),
      MkParams("object", Undef, Str("lead 123"), Undef),
      MkParams("invalid", Undef, Undef, Undef) }

\* a step of an automation request; t is "null" for a null array element
MkStep(t, type, params) == [t |-> t, type |-> type, params |-> params]

AutomationSteps ==
    { MkStep("object", Str("price"), NoParams),
      MkStep("object", Str("queue"),
             MkParams("object", Str("sendFollowUpEmail"), Str("lead 123"), Undef)),
      MkStep("object", Str("queue"), NoParams),
      MkStep("object", Str("enrich"),
             MkParams("object", Undef, Undef, Str("Draft a follow-up note"))),
      MkStep("object", Str("paint"), NoParams),
      MkStep("null", Undef, NoParams) }

RECURSIVE SeqsUpTo(_, _)
SeqsUpTo(S, n) ==
    IF n = 0 THEN {<<>>}
    ELSE LET shorter == SeqsUpTo(S, n - 1)
         IN shorter \cup {Append(q, x) : q \in shorter, x \in S}

\* bodies posted to /api/automation: `steps` is an array (t "array"), is
\* missing or not an array (t "other"), or the body is not JSON (t "invalid")
AutomationBodies ==
    { [t |-> "array", steps |-> q] : q \in SeqsUpTo(AutomationSteps, MaxSteps) }
    \cup { [t |-> "other", steps |-> <<>>], [t |-> "invalid", steps |-> <<>>] }

IdleOrch ==
    [pc |-> "idle", handler |-> "none", n |-> 0, body |-> NoParams, steps |-> <<>>,
     results |-> <<>>, inner |-> <<>>, sent |-> 0, resp |-> MkResponse(0, "none")]

\* POST /api/queue
QueueRequest(body, sendOk) ==
    /\ orch.pc \in {"idle", "returned"}
    /\ orch.n < MaxRequests
    /\ LET r == handleQueue(body, orchEnv, sendOk)
       IN /\ orch' = [IdleOrch EXCEPT !.pc = "returned", !.handler = "queue",
                                       !.n = orch.n + 1, !.body = body,
                                       !.sent = Len(r.sent), !.resp = r.resp]
          /\ taskQueue' = taskQueue \o r.sent
    /\ UNCHANGED <<env, leadVars, qualifier, orchEnv, chatVars, queueVars>>

\* POST /api/automation up to the for-loop: request.json() and the check
\* that steps is a non-empty array
AutomationStart(body) ==
    /\ orch.pc \in {"idle", "returned"}
    /\ orch.n < MaxRequests
    /\ orch' = IF body.t = "invalid"
               THEN [IdleOrch EXCEPT !.pc = "returned", !.handler = "automation",
                                     !.n = orch.n + 1,
                                     !.resp = MkResponse(400, "error: Invalid input")]
               ELSE IF body.t # "array" \/ Len(body.steps) = 0
               THEN [IdleOrch EXCEPT !.pc = "returned", !.handler = "automation",
                                     !.n = orch.n + 1,
                                     !.resp = MkResponse(400,
                                         "error: steps must be a non-empty array")]
               ELSE [IdleOrch EXCEPT !.pc = "loop", !.handler = "automation",
                                     !.n = orch.n + 1, !.steps = body.steps]
    /\ UNCHANGED <<env, leadVars, qualifier, orchEnv, taskQueue, chatVars, queueVars>>

\* an entry of the results array
MkResult(type, result) == [type |-> type, result |-> result]

\* mutant of AutomationStep: a step of unknown type ends the loop with 400
AutomationStep_StopOnUnknown(sendOk, aiRes) ==
    /\ orch.pc = "loop"
    /\ Len(orch.results) < Len(orch.steps)
    /\ LET step == orch.steps[Len(orch.results) + 1]
           q == handleQueue(step.params, orchEnv, sendOk)
       IN IF step.t = "null" \/ step.type \notin {Str("price"), Str("queue"), Str("enrich")}
          THEN /\ orch' = [orch EXCEPT !.pc = "returned",
                                       !.resp = MkResponse(400, "error: Invalid input")]
               /\ UNCHANGED taskQueue
          ELSE IF step.type = Str("price")
          THEN /\ orch' = [orch EXCEPT
                              !.results = Append(@, MkResult(step.type,
                                                     handlePrice(step.params).body)),
                              !.inner = Append(@, handlePrice(step.params).status)]
               /\ UNCHANGED taskQueue
          ELSE IF step.type = Str("queue")
          THEN /\ orch' = [orch EXCEPT
                              !.results = Append(@, MkResult(step.type, "queued")),
                              !.inner = Append(@, q.resp.status),
                              !.sent = @ + Len(q.sent)]
               /\ taskQueue' = taskQueue \o q.sent
          ELSE /\ orch' = [orch EXCEPT
                              !.results = Append(@, MkResult(step.type,
                                            handleEnrich(step.params, orchEnv, aiRes).body)),
                              !.inner = Append(@,
                                            handleEnrich(step.params, orchEnv, aiRes).status)]
               /\ UNCHANGED taskQueue
    /\ UNCHANGED <<env, leadVars, qualifier, orchEnv, chatVars, queueVars>>

\* one iteration of the for-loop over steps: the destructuring of a null
\* step raises and the catch answers 400; a price, queue or enrich step
\* awaits its handler and pushes its entry; any other type pushes an error
\* entry.  The entry of a queue step does not look at handleQueue's response.
AutomationStep(sendOk, aiRes) ==
    /\ orch.pc = "loop"
    /\ Len(orch.results) < Len(orch.steps)
    /\ LET step == orch.steps[Len(orch.results) + 1]
           q == handleQueue(step.params, orchEnv, sendOk)
       IN IF step.t = "null"
          THEN /\ orch' = [orch EXCEPT !.pc = "returned",
                                       !.resp = MkResponse(400, "error: Invalid input")]
               /\ UNCHANGED taskQueue
          ELSE IF step.type = Str("price")
          THEN /\ orch' = [orch EXCEPT
                              !.results = Append(@, MkResult(step.type,
                                                     handlePrice(step.params).body)),
                              !.inner = Append(@, handlePrice(step.params).status)]
               /\ UNCHANGED taskQueue
          ELSE IF step.type = Str("queue")
          THEN /\ orch' = [orch EXCEPT
                              !.results = Append(@, MkResult(step.type, "queued")),
                              !.inner = Append(@, q.resp.status),
                              !.sent = @ + Len(q.sent)]
               /\ taskQueue' = taskQueue \o q.sent
          ELSE IF step.type = Str("enrich")
          THEN /\ orch' = [orch EXCEPT
                              !.results = Append(@, MkResult(step.type,
                                            handleEnrich(step.params, orchEnv, aiRes).body)),
                              !.inner = Append(@,
                                            handleEnrich(step.params, orchEnv, aiRes).status)]
               /\ UNCHANGED taskQueue
          ELSE /\ orch' = [orch EXCEPT
                              !.results = Append(@, MkResult(step.type,
                                                     "error: Unknown step type")),
                              !.inner = Append(@, 0)]
               /\ UNCHANGED taskQueue
    /\ UNCHANGED <<env, leadVars, qualifier, orchEnv, chatVars, queueVars>>

\* the loop is exhausted: the results are returned
AutomationReturn ==
    /\ orch.pc = "loop"
    /\ Len(orch.results) = Len(orch.steps)
    /\ orch' = [orch EXCEPT !.pc = "returned", !.resp = MkResponse(200, "results")]
    /\ UNCHANGED <<env, leadVars, qualifier, orchEnv, taskQueue, chatVars, queueVars>>

(***************************************************************************)
(* The HTTP producers of the notification queue: handleEstimate            *)
(* (routes/estimate) and handleAnalytics (routes/analytics).  One request  *)
(* is followed from its arrival to its response; the consumer is handed    *)
(* the bodies the producers sent.                                          *)
(***************************************************************************)
\* HTTP requests followed in one behaviour
MaxEvents == 2

\* the parsed JSON body of a request: t is "object" or "null"; an absent
\* field reads as undefined
MkData(t, event, page, value, type, service, message, leadValue) ==
    [t |-> t, event |-> event, page |-> page, value |-> value, type |-> type,
     service |-> service, message |-> message, leadValue |-> leadValue]

NullData == MkData("null", Undef, Undef, Undef, Undef, Undef, Undef, Undef)

\* a submission of the estimate form
MkEstimate(type, service, message, leadValue) ==
    MkData("object", Undef, Undef, Undef, type, service, message, leadValue)

\* estimate submissions: the form's fields alone, a service that is not a
\* string, fields the form does not have, and a body that is JSON null
EstimateData ==
    { MkEstimate(Undef, Str("Interior Painting"), Str("just curious"), Undef),
      MkEstimate(Undef, Str("Commercial Building"), Str("quote for my OFFICE asap"), Undef),
      MkEstimate(Undef, NonStr, Str("just curious"), Undef),
      MkEstimate(Str("high_value_chat_lead"), Str("Interior Painting"),
                 Str("just curious"), Undef),
      MkEstimate(Undef, Str("Interior Painting"), Str("just curious"), Str("high")),
      NullData }

AnalyticsEventNames ==
    {"phone_click", "page_engagement", "chat_started", "form_started",
     "form_abandoned", "email_click", "service_page_view", "gallery_engagement",
     "video_play"}

\* tracking requests: each event name with and without a page, one with a
\* value, one with no event name, and a body that is JSON null
AnalyticsData ==
    { MkData("object", Str(n), pg, Undef, Undef, Undef, Undef, Undef) :
        n \in AnalyticsEventNames, pg \in {Undef, BodyPage} }
    \cup { MkData("object", Str("service_page_view"), BodyPage, NonStr,
                  Undef, Undef, Undef, Undef),
           MkData("object", Undef, BodyPage, Undef, Undef, Undef, Undef, Undef),
           NullData }

\* JSON.stringify of an object: its text, a string whose properties read as
\* undefined
stringify(obj) == [obj EXCEPT !.t = "string"]

\* a property set by an object literal and then by a spread of data: the
\* spread's value wins when data has the property
Spread(literal, data, f) == IF data[f] = Undef THEN literal ELSE data[f]

\* JSON.stringify({ type: 'estimate_request', ...data, timestamp })
estimatePayload(data) ==
    stringify(MkBody("object", Spread(Str("estimate_request"), data, "type"),
                     data.service, data.message, Undef, data.page, data.leadValue))

\* JSON.stringify({ type: 'call_conversion', page: data.page, timestamp })
callConversionPayload(data) ==
    stringify(MkBody("object", Str("call_conversion"), Undef, Undef, Undef,
                     data.page, Undef))

\* the row bound into INSERT INTO Leads
leadRow(data) == [service |-> data.service, message |-> data.message]

\* mutant of analyticsPayloads: an email click is notified like a phone click
analyticsPayloads_EmailToo(data) ==
    IF data.event \in {Str("phone_click"), Str("email_click")}
    THEN << callConversionPayload(data) >>
    ELSE <<>>

\* the payloads the switch of handleAnalytics sends for an event
analyticsPayloads(data) ==
    IF data.event = Str("phone_click") THEN << callConversionPayload(data) >> ELSE <<>>

\* (data.value || k) as an event value; a number of a request body is 5
ValueOr(v, k) == IF Truthy(v) THEN 5 ELSE k

\* the tracking call the switch of handleAnalytics makes for an event; an
\* event sent with no value is recorded with value 0
analyticsTracking(e, data, r1, r2) ==
    LET ev == data.event
    IN IF ev = Str("phone_click") THEN trackPhoneCall(e, OrEmpty(data.page), r1, r2)
       ELSE IF ev = Str("page_engagement")
       THEN trackGA4Event(e, MkEvent("page_engagement", "user_engagement", 0), r1)
       ELSE IF ev = Str("chat_started")
       THEN trackBusinessEvent(e, "chat_started", "user_interaction", 5, r1)
       ELSE IF ev = Str("form_started")
       THEN trackBusinessEvent(e, "form_started", "form_interaction", 10, r1)
       ELSE IF ev = Str("form_abandoned")
       THEN trackBusinessEvent(e, "form_abandoned", "form_interaction", 0 - 5, r1)
       ELSE IF ev = Str("email_click")
       THEN trackBusinessEvent(e, "email_click", "contact_interaction", 15, r1)
       ELSE IF ev = Str("service_page_view")
       THEN trackBusinessEvent(e, "service_page_view", "service_interest",
                               ValueOr(data.value, 3), r1)
       ELSE IF ev = Str("gallery_engagement")
       THEN trackBusinessEvent(e, "gallery_engagement", "visual_content",
                               ValueOr(data.value, 2), r1)
       ELSE trackBusinessEvent(e, Interpolated(ev), "user_action",
                               ValueOr(data.value, 0), r1)

IdleHttp ==
    [pc |-> "idle", handler |-> "none", data |-> NullData, row |-> 0,
     sent |-> FALSE, events |-> <<>>, status |-> 0]

HttpDone == http.pc \in {"idle", "returned", "threw"}

\* a request arrives once the previous one has been answered and the message
\* it sent, if any, has been handled by the consumer
HttpArrives ==
    /\ HttpDone
    /\ nHttp < MaxEvents
    /\ notifyQueue = <<>>
    /\ qpc \in {"idle", "returned"}
    /\ nHttp' = nHttp + 1

\* POST /api/estimate: request.json() and the destructuring of its result,
\* which raises on a null body
EstimateStart(data) ==
    /\ HttpArrives
    /\ http' = [IdleHttp EXCEPT !.handler = "estimate", !.data = data,
                                !.pc = IF data.t = "null" THEN "threw" ELSE "insert"]
    /\ UNCHANGED <<env, db, qualifier, orchVars, chatVars, queueVars>>

\* mutant of EstimateInsert: a failed insert is logged and the handler goes on
EstimateInsert_IgnoreFailure(dbOk) ==
    /\ http.pc = "insert"
    /\ IF dbOk
       THEN /\ db' = Append(db, leadRow(http.data))
            /\ http' = [http EXCEPT !.pc = "send", !.row = Len(db) + 1]
       ELSE /\ db' = db
            /\ http' = [http EXCEPT !.pc = "send"]
    /\ UNCHANGED <<env, nHttp, qualifier, orchVars, chatVars, queueVars>>

\* await env.DB.prepare(INSERT ...).bind(...).run(): a failure leaves the handler
EstimateInsert(dbOk) ==
    /\ http.pc = "insert"
    /\ IF dbOk
       THEN /\ db' = Append(db, leadRow(http.data))
            /\ http' = [http EXCEPT !.pc = "send", !.row = Len(db) + 1]
       ELSE /\ db' = db
            /\ http' = [http EXCEPT !.pc = "threw"]
    /\ UNCHANGED <<env, nHttp, qualifier, orchVars, chatVars, queueVars>>

\* await env.NOTIFY_QUEUE.send(...): a failure leaves the handler
EstimateSend(sendOk) ==
    /\ http.pc = "send"
    /\ IF sendOk
       THEN /\ notifyQueue' = Append(notifyQueue, estimatePayload(http.data))
            /\ http' = [http EXCEPT !.pc = "track", !.sent = TRUE]
       ELSE /\ notifyQueue' = notifyQueue
            /\ http' = [http EXCEPT !.pc = "threw"]
    /\ UNCHANGED <<env, db, nHttp, qualifier, orchVars, storage, calls, nCalls, last,
                   queueVars>>

\* ctx.waitUntil(trackFormSubmission(data, referer)), whose rejection is not
\* the handler's, then Response.redirect with a relative URL, which the
\* runtime may refuse
EstimateReturn(r1, r2, redirectOk) ==
    /\ http.pc = "track"
    /\ http' = [http EXCEPT !.events = trackFormSubmission(env, http.data, r1, r2).events,
                            !.pc = IF redirectOk THEN "returned" ELSE "threw",
                            !.status = IF redirectOk THEN 303 ELSE 0]
    /\ UNCHANGED <<env, db, nHttp, qualifier, orchVars, chatVars, queueVars>>

\* /api/analytics: the router hands POST requests to handleAnalytics and
\* answers 404 to the others; then request.json() and data.event inside the
\* try block, whose catch answers 500
AnalyticsStart(method, data) ==
    /\ HttpArrives
    /\ http' = IF method # "POST"
               THEN [IdleHttp EXCEPT !.pc = "returned", !.status = 404]
               ELSE [IdleHttp EXCEPT
                        !.handler = "analytics", !.data = data,
                        !.pc = IF data.t = "object" THEN "switch" ELSE "returned",
                        !.status = IF data.t = "object" THEN 0 ELSE 500]
    /\ UNCHANGED <<env, db, qualifier, orchVars, chatVars, queueVars>>

\* the awaited tracking call of the event's case
AnalyticsTrack(r1, r2) ==
    /\ http.pc = "switch"
    /\ LET sends == analyticsPayloads(http.data) # <<>>
       IN http' = [http EXCEPT !.events = analyticsTracking(env, http.data, r1, r2).events,
                               !.pc = IF sends THEN "notify" ELSE "returned",
                               !.status = IF sends THEN 0 ELSE 200]
    /\ UNCHANGED <<env, db, nHttp, qualifier, orchVars, chatVars, queueVars>>

\* await env.NOTIFY_QUEUE.send(...) of the phone_click case; a failure is
\* caught and answered 500
AnalyticsSend(sendOk) ==
    /\ http.pc = "notify"
    /\ IF sendOk
       THEN /\ notifyQueue' = notifyQueue \o analyticsPayloads(http.data)
            /\ http' = [http EXCEPT !.pc = "returned", !.sent = TRUE, !.status = 200]
       ELSE /\ notifyQueue' = notifyQueue
            /\ http' = [http EXCEPT !.pc = "returned", !.status = 500]
    /\ UNCHANGED <<env, db, nHttp, qualifier, orchVars, storage, calls, nCalls, last,
                   queueVars>>

\* the platform invokes queue() with the messages waiting in the queue
QueueDeliverSent ==
    /\ notifyQueue # <<>>
    /\ qpc \in {"idle", "returned"}
    /\ qpc' = "loop"
    /\ batchLen' = Len(notifyQueue)
    /\ outcomes' = <<>>
    /\ cur' = NoMsg
    /\ UNCHANGED <<env, leadVars, qualifier, orchVars, chatVars>>

\* the for-loop takes the next message: its body is the value that was sent,
\* a string for a string
QueueTakeSent ==
    /\ qpc = "loop"
    /\ cur.state = "none" \/ Settled(cur)
    /\ Len(Handled) < batchLen
    /\ notifyQueue # <<>>
    /\ outcomes' = Handled
    /\ cur' = [NoMsg EXCEPT !.state = "Processing", !.body = Head(notifyQueue)]
    /\ notifyQueue' = Tail(notifyQueue)
    /\ UNCHANGED <<env, leadVars, qualifier, orchVars, storage, calls, nCalls, last,
                   qpc, batchLen>>

(***************************************************************************)
(* Specifications.                                                         *)
(***************************************************************************)
\* no chat call in flight, nothing sent to the queue, no batch delivered
Quiet ==
    /\ calls = [c \in Slots |-> IdleCall]
    /\ nCalls = 0
    /\ last = IdleCall
    /\ notifyQueue = <<>>
    /\ qpc = "idle"
    /\ batchLen = 0
    /\ outcomes = <<>>
    /\ cur = NoMsg
    /\ orch = IdleOrch
    /\ taskQueue = <<>>
    /\ db = <<>>
    /\ http = IdleHttp
    /\ nHttp = 0

Init ==
    /\ env \in Envs
    /\ storage = [s \in Sessions |-> <<>>]
    /\ Quiet
    /\ qualifier = NoQualifier
    /\ orchEnv = MkOrchEnv(TRUE, TRUE)

NextQueue ==
    \/ \E n \in 1..MaxBatch : QueueDeliver(n)
    \/ \E body \in Bodies : QueueTake(body)
    \/ \E smsRes \in SinkResults, emailRes \in SinkResults,
          r1 \in SinkResults, r2 \in SinkResults :
          QueueSettle(smsRes, emailRes, r1, r2)
    \/ QueueReturn

SpecQueue == Init /\ [][NextQueue]_vars

\* a body of each kind, well formed, and one of each way of raising: a null
\* body, and an estimate request that raises in the analytics step
StateMachineBodies ==
    { MkBody("object", Str("estimate_request"), Str("Commercial Building"),
             Str("just curious"), Undef, BodyPage, Undef),
      MkBody("object", Str("estimate_request"), NonStr, Undef, Undef, BodyPage,
             Str("high")),
      MkBody("object", Str("high_value_chat_lead"), Undef, Str("just curious"),
             Undef, BodyPage, Undef),
      MkBody("object", Str("call_conversion"), Undef, Undef, Undef, BodyPage, Undef),
      MkBody("string", Str("estimate_request"), Str("Commercial Building"),
             Str("just curious"), Undef, Undef, Undef),
      MkBody("null", Undef, Undef, Undef, Undef, Undef, Undef) }

InitQueueFair ==
    /\ Init
    /\ env \in { MkEnv(TRUE, TRUE, TRUE, TRUE, TRUE, TRUE),
                  MkEnv(FALSE, FALSE, FALSE, FALSE, FALSE, FALSE) }

NextQueueFair ==
    \/ \E n \in 1..MaxBatch : QueueDeliver(n)
    \/ \E body \in StateMachineBodies : QueueTake(body)
    \/ \E smsRes \in SinkResults, emailRes \in SinkResults,
          r1 \in SinkResults, r2 \in SinkResults :
          QueueSettle(smsRes, emailRes, r1, r2)
    \/ QueueReturn

\* the consumer when every awaited sink call returns or fails: the try block
\* of a message runs to its ack() or retry(), and the loop goes on to the next
\* message and to its end.  Deliveries of further batches are not assumed.
SpecQueueFair ==
    /\ InitQueueFair
    /\ [][NextQueueFair]_vars
    /\ WF_vars(\E body \in StateMachineBodies : QueueTake(body))
    /\ WF_vars(\E smsRes \in SinkResults, emailRes \in SinkResults,
                  r1 \in SinkResults, r2 \in SinkResults :
                  QueueSettle(smsRes, emailRes, r1, r2))
    /\ WF_vars(QueueReturn)

NextChat ==
    \/ \E c \in Slots, key \in ClientKeys, req \in ChatRequests :
          ChatStart(c, Str(key), req.message, req.page)
    \/ \E c \in Slots, ai \in AIResponses, sendOk \in BOOLEAN, gaRes \in SinkResults :
          ChatCompletion(c, ai, sendOk, gaRes)
    \/ \E c \in Slots, gaRes \in SinkResults : ChatPersist(c, gaRes)

\* the chat calls are checked under the fully configured bindings
InitChat == Init /\ env = MkEnv(TRUE, TRUE, TRUE, TRUE, TRUE, TRUE)

SpecChat == InitChat /\ [][NextChat]_vars

\* histories a session may hold when the qualifier runs
StoredHistories ==
    { <<>>,
      << userTurn(Str("hello")), assistantTurn(Str("Sure.")) >>,
      << userTurn(Str("commercial")), assistantTurn(Str(ReplyText)) >> }

\* the qualifier on its own: its arguments and the session's stored history
\* are drawn, then it is invoked
InitQualifier ==
    /\ env = MkEnv(TRUE, TRUE, TRUE, TRUE, TRUE, TRUE)
    /\ \E h \in StoredHistories : storage = [s \in Sessions |-> h]
    /\ Quiet
    /\ \E message \in QualifierMessages, reply \in QualifierReplies :
          qualifier = [NoQualifier EXCEPT !.pc = "called", !.message = message,
                                          !.reply = reply]
    /\ orchEnv = MkOrchEnv(TRUE, TRUE)

NextQualifier == Qualify

SpecQualifier == InitQualifier /\ [][NextQualifier]_vars

\* the session keys a caller can put in X-Session-ID: none, a key of its own,
\* or the sessionId of the response it received last
SessionHeaders ==
    {Undef} \cup {Str(key) : key \in ClientKeys}
            \cup (IF last.resp = "ok" THEN {Str(last.s)} ELSE {})

SessionRequests ==
    { [message |-> Str("Do you do commercial office painting?"), page |-> Str("/services")],
      [message |-> Str("hello"), page |-> Str("/services")] }

SessionAIResponses == { MkAI("error", "none", "none"), MkAI("ok", "ok", "content") }

\* conversations: chat calls that carry any of the session keys
NextSession ==
    \/ \E c \in Slots, header \in SessionHeaders, req \in SessionRequests :
          ChatStart(c, header, req.message, req.page)
    \/ \E c \in Slots, ai \in SessionAIResponses :
          ChatCompletion(c, ai, TRUE, "ok")
    \/ \E c \in Slots : ChatPersist(c, "ok")

SpecSession == InitChat /\ [][NextSession]_vars

\* the orchestrator worker under each combination of its bindings
InitOrchestrator ==
    /\ env = MkEnv(TRUE, TRUE, TRUE, TRUE, TRUE, TRUE)
    /\ storage = [s \in Sessions |-> <<>>]
    /\ Quiet
    /\ qualifier = NoQualifier
    /\ orchEnv \in OrchEnvs

NextOrchestrator ==
    \/ \E body \in QueueBodies, sendOk \in BOOLEAN : QueueRequest(body, sendOk)
    \/ \E body \in AutomationBodies : AutomationStart(body)
    \/ \E sendOk \in BOOLEAN, aiRes \in SinkResults : AutomationStep(sendOk, aiRes)
    \/ AutomationReturn

SpecOrchestrator == InitOrchestrator /\ [][NextOrchestrator]_vars

\* the producers and the consumer of what they sent, with analytics and the
\* notification sinks configured, analytics alone, or nothing
InitLead ==
    /\ Init
    /\ env \in { MkEnv(TRUE, TRUE, TRUE, TRUE, TRUE, TRUE),
                  MkEnv(FALSE, FALSE, FALSE, FALSE, TRUE, FALSE),
                  MkEnv(FALSE, FALSE, FALSE, FALSE, FALSE, FALSE) }

NextLead ==
    \/ \E data \in EstimateData : EstimateStart(data)
    \/ \E dbOk \in BOOLEAN : EstimateInsert(dbOk)
    \/ \E sendOk \in BOOLEAN : EstimateSend(sendOk)
    \/ \E r1 \in SinkResults, r2 \in SinkResults, redirectOk \in BOOLEAN :
          EstimateReturn(r1, r2, redirectOk)
    \/ \E method \in {"POST", "GET"}, data \in AnalyticsData : AnalyticsStart(method, data)
    \/ \E r1 \in SinkResults, r2 \in SinkResults : AnalyticsTrack(r1, r2)
    \/ \E sendOk \in BOOLEAN : AnalyticsSend(sendOk)
    \/ QueueDeliverSent
    \/ QueueTakeSent
    \/ \E res \in SinkResults, r1 \in SinkResults : QueueSettle(res, res, r1, r1)
    \/ QueueReturn

SpecLead == InitLead /\ [][NextLead]_vars

Next ==
    NextChat \/ NextQueue \/ NextQueueFair \/ NextQualifier \/ NextSession
        \/ NextOrchestrator \/ NextLead

Spec == Init /\ [][Next]_vars

(***************************************************************************)
(* Properties of the chat session.                                         *)
(***************************************************************************)
\* the completion call succeeded: the request was answered with a success
\* status and a body exposing choices[0].message.content
CompletionSucceeded(ai) ==
    ai.transport = "ok" /\ ai.status = "ok" /\ ai.body = "content"

\* the completion call was made and failed: transport error, non-success
\* status, or a body that does not expose choices[0].message.content
CompletionFailed(ai) == ai.transport # "none" /\ ~CompletionSucceeded(ai)

\* call c ends in this step (its record becomes `last`)
Ends(c) == calls[c].pc # "idle" /\ calls'[c].pc = "idle"

\* C1 (as claimed): a chat call whose completion call failed ends with the
\* persisted history of every session, its own included, as it was: nothing is
\* appended.
C1_FailedCompletionKeepsHistory ==
    [][\A c \in Slots :
          (Ends(c) /\ CompletionFailed(last'.ai)) => storage' = storage]_vars

\* C2 (as claimed): a chat call with a message whose completion call succeeded
\* ends with the persisted history of its session equal to the history it loaded followed by
\* its user turn and its assistant turn.
C2_SuccessAppendsPair ==
    [][\A c \in Slots :
          (Ends(c) /\ calls[c].message.t = "string"
                   /\ CompletionSucceeded(last'.ai)) =>
              storage'[last'.s] =
                  calls[c].history \o << userTurn(calls[c].message),
                                         assistantTurn(last'.reply) >>]_vars

\* C3 (as claimed): a high-value call whose completion succeeded and whose
\* queue send failed still returns the reply as a success and has put its two
\* turns.
C3_EnqueueFailureSwallowed ==
    (last.resp # "none" /\ CompletionSucceeded(last.ai)
        /\ last.isHighValue /\ ~last.sendOk)
        => (last.resp = "ok" /\ last.puts = 1
            /\ storage[last.s] # <<>>)

(***************************************************************************)
(* Properties of the queue consumer.                                       *)
(***************************************************************************)
StringOrAbsent(v) == v.t \in {"undefined", "string"}

\* a payload of the tagged union: an object of one of the three kinds whose
\* text fields, when present, are strings
WellFormed(body) ==
    /\ body.t = "object"
    /\ body.type \in {Str(k) : k \in Kinds}
    /\ StringOrAbsent(body.service)
    /\ StringOrAbsent(body.message)
    /\ StringOrAbsent(body.leadValue)

TwilioConfigured ==
    env.TWILIO_ACCOUNT_SID /\ env.TWILIO_AUTH_TOKEN /\ env.TWILIO_PHONE_NUMBER

NoSinkCalled(m) == ~m.sms.out /\ ~m.email.out /\ m.ga = <<>>

MissingType(body) == body.t = "object" /\ body.type = Undef

\* C4 (as claimed): a delivered message whose payload lacks the `type` field
\* ends marked retry, is not acknowledged, and no SMS, email or analytics
\* sink was called for it.
C4_MalformedIsRetried ==
    (Settled(cur) /\ MissingType(cur.body))
        => (cur.retries = 1 /\ cur.acks = 0 /\ NoSinkCalled(cur))

\* C5: a well-formed message is acknowledged (ack once, no retry) whatever the
\* SMS and email sinks answered: success, non-success response or network error.
C5_AckIndependentOfDispatch ==
    (Settled(cur) /\ WellFormed(cur.body))
        => (cur.state = "Acknowledged" /\ cur.acks = 1 /\ cur.retries = 0)

\* a failing SMS sink with a succeeding email sink, and the message acknowledged
C5_Witness ==
    /\ Settled(cur) /\ WellFormed(cur.body)
    /\ cur.sms.out /\ cur.sms.res = "neterr"
    /\ cur.email.out /\ cur.email.ok
    /\ cur.state = "Acknowledged"

AnalyticsFailed(m) == \E i \in 1..Len(m.ga) : m.ga[i].res # "ok"

ResOf(call) == IF call.res = "none" THEN "ok" ELSE call.res

\* C6: when an analytics call failed while a message was processed (network
\* error or non-success response), the message is acknowledged and its channel
\* calls are those of the same delivery with a succeeding analytics sink.
C6_AnalyticsFailureHarmless ==
    (Settled(cur) /\ AnalyticsFailed(cur))
        => LET ref == tryBlock(cur.body, env, ResOf(cur.sms), ResOf(cur.email), "ok", "ok")
           IN /\ cur.state = "Acknowledged"
              /\ cur.state = settle(ref.threw).state
              /\ cur.sms = ref.sms
              /\ cur.email = ref.email

\* the analytics sink raised a network error for an acknowledged message
C6_Witness ==
    /\ Settled(cur)
    /\ \E i \in 1..Len(cur.ga) : cur.ga[i].res = "neterr"
    /\ cur.email.out
    /\ cur.state = "Acknowledged"

ExactlyOne(o) == o.acks + o.retries = 1

\* C7: every message the loop has finished has had exactly one of ack() and
\* retry() called, once; a message being processed has had neither; and when
\* queue() returns every message of the batch has been finished.
C7_ExactlyOneOfAckRetry ==
    /\ \A i \in 1..Len(outcomes) : ExactlyOne(outcomes[i])
    /\ Settled(cur) => ExactlyOne(cur)
    /\ cur.state = "Processing" => (cur.acks = 0 /\ cur.retries = 0)
    /\ qpc = "returned" => Len(outcomes) = batchLen

\* a returned batch with one acknowledged and one retried message
C7_Witness ==
    /\ qpc = "returned"
    /\ Len(outcomes) = batchLen
    /\ \E i \in 1..Len(outcomes) : outcomes[i].acks = 1
    /\ \E i \in 1..Len(outcomes) : outcomes[i].retries = 1

\* C8: a call_conversion payload never has sendSMS invoked for it, so no SMS
\* request goes out, whatever the bindings and its other fields.
C8_CallConversionNoSMS ==
    (Settled(cur) /\ Get(cur.body, "type") = Str("call_conversion"))
        => (~cur.sms.called /\ ~cur.sms.out)

\* a call_conversion with commercial text and leadValue 'high', Twilio set,
\* for which the email went out
C8_Witness ==
    /\ Settled(cur) /\ Get(cur.body, "type") = Str("call_conversion")
    /\ TwilioConfigured
    /\ cur.body.leadValue = Str("high")
    /\ isCommercialLead(cur.body)
    /\ cur.email.out

\* the handler of the payload's kind ran: the payload was routed as high
\* priority exactly when sendSMS was invoked for it
Routed(m) == Settled(m) /\ m.email.called

KindIs(m, k) == Get(m.body, "type") = Str(k)

\* C9 (as claimed): chat leads are always high priority, call conversions
\* never, and an estimate request exactly when the commercial keyword match
\* succeeds on its service and message.
C9_PriorityByKeywordsOnly ==
    Routed(cur) =>
        /\ KindIs(cur, "high_value_chat_lead") => cur.sms.called
        /\ KindIs(cur, "call_conversion") => ~cur.sms.called
        /\ KindIs(cur, "estimate_request") =>
               (cur.sms.called <=> isCommercialLead(cur.body))

\* C9 (amended): as claimed, except that an estimate request is high priority
\* exactly when its leadValue is 'high' or the commercial keyword match
\* succeeds on its service and message.
C9_PriorityClassification ==
    Routed(cur) =>
        /\ KindIs(cur, "high_value_chat_lead") => cur.sms.called
        /\ KindIs(cur, "call_conversion") => ~cur.sms.called
        /\ KindIs(cur, "estimate_request") =>
               (cur.sms.called <=>
                   (cur.body.leadValue = Str("high") \/ isCommercialLead(cur.body)))

\* an estimate request for "Interior Painting" / "just curious" with leadValue
\* 'high' was routed as high priority
C9_Witness ==
    /\ Routed(cur) /\ KindIs(cur, "estimate_request")
    /\ cur.body.service = Str("Interior Painting")
    /\ cur.body.message = Str("just curious")
    /\ cur.body.leadValue = Str("high")
    /\ cur.sms.called

\* the priority the dispatcher gives a payload
HighPriority(body) ==
    \/ Get(body, "type") = Str("high_value_chat_lead")
    \/ Get(body, "type") = Str("estimate_request") /\ isHighPriority(body)

\* C10: an SMS request goes out only for a high-priority payload with Twilio
\* configured; for every well-formed payload of any kind and priority an
\* email request goes out whenever SendGrid is configured.
C10_ChannelRouting ==
    Settled(cur) =>
        /\ cur.sms.out => (HighPriority(cur.body) /\ TwilioConfigured)
        /\ (WellFormed(cur.body) /\ env.SENDGRID_API_KEY) => cur.email.out

\* a low-priority estimate request with both sinks configured: email only
C10_Witness ==
    /\ Settled(cur) /\ WellFormed(cur.body)
    /\ KindIs(cur, "estimate_request") /\ ~HighPriority(cur.body)
    /\ TwilioConfigured /\ env.SENDGRID_API_KEY
    /\ cur.email.out /\ ~cur.sms.out

SmsFailed(m) == m.sms.out /\ m.sms.res \in {"nonok", "neterr"}

\* C11: whenever the SMS request of a payload failed (non-success response or
\* network error), sendEmail was still invoked for the same payload, and its
\* request went out when SendGrid is configured.
C11_SmsFailureKeepsEmail ==
    (Settled(cur) /\ SmsFailed(cur))
        => (cur.email.called /\ (env.SENDGRID_API_KEY => cur.email.out))

\* a chat lead whose SMS request met a network error and whose email went out
C11_Witness ==
    /\ Settled(cur) /\ KindIs(cur, "high_value_chat_lead")
    /\ cur.sms.out /\ cur.sms.res = "neterr"
    /\ cur.email.out /\ cur.email.ok

Dispatched(m) == m.sms.out \/ m.email.out

\* C12 (as claimed): no message for which an SMS or email request went out in
\* a delivery ends that delivery marked retry.
C12_RetryOnlyBeforeDispatch ==
    (Settled(cur) /\ Dispatched(cur)) => cur.retries = 0

(***************************************************************************)
(* Properties of the lead qualifier.                                       *)
(***************************************************************************)
\* the keyword search of the claim, on the text itself
ContainsKeyword(text) ==
    \E keyword \in highValueKeywords : includes(toLowerCase(text), keyword)

\* C13: invoked with a message text, the qualifier raises nothing and returns
\* true exactly when the lower-cased message contains a keyword as a
\* substring, whatever the reply and the stored history; "commercial" and
\* "Commercial Building" match, "hello" does not.
C13_QualifierIsKeywordMatch ==
    (qualifier.pc = "returned" /\ qualifier.message.t = "string")
        => /\ ~qualifier.threw
           /\ qualifier.result = ContainsKeyword(qualifier.message.s)
           /\ qualifier.message.s \in {"commercial", "Commercial Building"}
                  => qualifier.result
           /\ qualifier.message.s = "hello" => ~qualifier.result

\* "Commercial Building" matched, with a reply in a session that holds a history
C13_Witness ==
    /\ qualifier.pc = "returned"
    /\ qualifier.message = Str("Commercial Building")
    /\ qualifier.reply = Str(ReplyText)
    /\ \A s \in Sessions : storage[s] # <<>>
    /\ qualifier.result

(***************************************************************************)
(* Properties of the chat session, continued.                              *)
(***************************************************************************)
\* call c hands its lead to NOTIFY_QUEUE.send in this step
SendsLead(c) == calls[c].pc = "awaitAI" /\ calls'[c].pc = "awaitSend"

\* the text sent carries the call's message, its reply and, when the request
\* named a page, that page
CarriesTurn(body, call) ==
    /\ body.type = Str("high_value_chat_lead")
    /\ body.message = call.message
    /\ body.reply = call.reply
    /\ Truthy(call.page) => body.page = call.page

\* C14: a chat call that ends with a success response returns isHighValue
\* true exactly when the qualifier matched its message and has sent one lead
\* payload when the flag is true, none when false; the queue grows only by a
\* call's send, by one payload carrying that call's message, reply and page.
C14_FlagAndSingleLead ==
    [][/\ \A c \in Slots :
              (Ends(c) /\ last'.resp = "ok") =>
                  /\ last'.isHighValue =
                         detectHighValueLead(last'.message, last'.reply)
                  /\ last'.sent = IF last'.isHighValue THEN 1 ELSE 0
       /\ \A c \in Slots :
              SendsLead(c) =>
                  /\ Len(notifyQueue') = Len(notifyQueue) + 1
                  /\ CarriesTurn(notifyQueue'[Len(notifyQueue')], calls'[c])
       /\ notifyQueue' # notifyQueue => \E c \in Slots : SendsLead(c)]_vars

\* "Do you do commercial office painting?" from /services was answered with
\* isHighValue true and its one payload names /services
C14_Witness ==
    /\ last.resp = "ok" /\ last.isHighValue /\ last.sent = 1
    /\ last.message = Str("Do you do commercial office painting?")
    /\ last.page = Str("/services")
    /\ Len(notifyQueue) = 1
    /\ notifyQueue[1].type = Str("high_value_chat_lead")
    /\ notifyQueue[1].message = last.message
    /\ notifyQueue[1].reply = last.reply
    /\ notifyQueue[1].page = Str("/services")

\* call c is started in this step
Starts(c) == calls[c].pc = "idle" /\ calls'[c].pc = "awaitAI"

\* C15 (as claimed): a chat call that supplies as its session key the
\* sessionId the last successful call returned is handled by the session of
\* that call and loads the history persisted there.
C15_ReturnedIdResumesSession ==
    [][\A c \in Slots :
          (Starts(c) /\ last.resp = "ok" /\ calls'[c].header = Str(last.s)) =>
              /\ calls'[c].s = last.s
              /\ calls'[c].history = storage[last.s]]_vars

\* C16 (as claimed, for the chat request): a chat call whose request has no
\* message ends rejected, not with an unhandled exception, and without a
\* completion call, a history write or a queue send.
C16_MissingMessageRejected ==
    (last.resp # "none" /\ last.message = Undef)
        => /\ last.resp = "rejected"
           /\ last.ai = NoAI
           /\ last.puts = 0
           /\ last.sent = 0

\* C17: a call that returns a reply writes the history it read when it
\* started followed by its own two turns, whatever other calls have written to
\* the session since: the read and the write are not one atomic step.
C17_WriteIsOfTheHistoryRead ==
    [][\A c \in Slots :
          (Ends(c) /\ last'.resp = "ok") =>
              storage'[last'.s] =
                  calls[c].history \o << userTurn(last'.message),
                                         assistantTurn(last'.reply) >>]_vars

\* a lost update: both calls of the behaviour have ended; the one that ended
\* last read an empty history and returned a reply; the other one sent its
\* lead and so returned its reply too, and to the same session, as no other
\* session holds anything; yet the session holds only the last call's pair
C17_Witness ==
    /\ nCalls = 2
    /\ \A c \in Slots : calls[c].pc = "idle"
    /\ last.resp = "ok" /\ last.history = <<>>
    /\ Len(notifyQueue) = 1 /\ notifyQueue[1].message # last.message
    /\ \A s \in Sessions \ {last.s} : storage[s] = <<>>
    /\ storage[last.s] = << userTurn(last.message), assistantTurn(last.reply) >>

\* a sequence of whole (user, assistant) pairs; the empty one included
WholePairs(h) ==
    /\ Len(h) % 2 = 0
    /\ \A i \in 1..Len(h) : h[i].role = IF i % 2 = 1 THEN "user" ELSE "assistant"

\* C18: the history persisted for a session is always a sequence of whole
\* (user, assistant) pairs, and whenever it changes, it is by a call on that
\* session that returns its reply, and it then ends with the assistant turn
\* of that reply.
C18_HistoryIsWholePairs ==
    /\ [](\A s \in Sessions : WholePairs(storage[s]))
    /\ [][\A s \in Sessions :
             storage'[s] # storage[s] =>
                 /\ last'.resp = "ok" /\ last'.s = s
                 /\ storage'[s] # <<>>
                 /\ storage'[s][Len(storage'[s])] = assistantTurn(last'.reply)]_vars

\* a session that holds one pair after a successful call and then a failed
\* call on it
C18_Witness ==
    /\ last.resp = "error" /\ last.history # <<>>
    /\ storage[last.s] = last.history
    /\ Len(storage[last.s]) = 2

(***************************************************************************)
(* Properties of the queue consumer, continued.                            *)
(***************************************************************************)
\* what handling `body` on its own does under bindings e when the SMS and
\* email sinks answer as they answered m and the analytics sink answers r1, r2
Alone(m, e, r1, r2) ==
    LET r == tryBlock(m.body, e, ResOf(m.sms), ResOf(m.email), r1, r2)
    IN [state |-> settle(r.threw).state, acks |-> settle(r.threw).acks,
        retries |-> settle(r.threw).retries, sms |-> r.sms, email |-> r.email,
        ga |-> r.ga]

\* C19: the outcome and the channel calls of a message are those of handling
\* its body alone, whatever its position in the batch and whatever happened
\* to the messages before it; and when queue() returns, every message of the
\* batch has been given its own outcome, also after a message that raised.
C19_MessagesIndependent ==
    /\ Settled(cur) =>
           \E r1 \in SinkResults, r2 \in SinkResults :
               [state |-> cur.state, acks |-> cur.acks, retries |-> cur.retries,
                sms |-> cur.sms, email |-> cur.email, ga |-> cur.ga]
                   = Alone(cur, env, r1, r2)
    /\ qpc = "returned" =>
           /\ Len(outcomes) = batchLen
           /\ \A i \in 1..Len(outcomes) : ExactlyOne(outcomes[i])

\* the first message of a batch of two raised and was marked retry, the
\* second was then dispatched by email and acknowledged
C19_Witness ==
    /\ batchLen = 2
    /\ Len(outcomes) = 1 /\ outcomes[1].retries = 1
    /\ cur.state = "Acknowledged" /\ cur.email.out

\* the loop goes on from a finished message: its outcome is kept as it is
MovesOn == outcomes' = Append(outcomes, Outcome(cur))

\* C20: a message is being processed, acknowledged or marked retry and
\* nothing else; it becomes acknowledged or retryable only from processing,
\* with ack() alone or retry() alone called; once it is, it stays so until
\* the loop leaves it, and the outcomes of the messages left behind do not
\* change while the batch is handled; and, the sink calls returning or
\* failing, a message being processed is eventually acknowledged or marked
\* retry and a delivered batch is eventually finished.
C20_MessageStateMachine ==
    /\ [](/\ cur.state \in {"none", "Processing", "Acknowledged", "Retryable"}
          /\ cur.state = "Acknowledged" => (cur.acks = 1 /\ cur.retries = 0)
          /\ cur.state = "Retryable" => (cur.acks = 0 /\ cur.retries = 1))
    /\ [][/\ (Settled(cur') /\ cur' # cur) => cur.state = "Processing"
          /\ (cur'.state = "Processing" /\ cur' # cur) => cur.state # "Processing"
          /\ (Settled(cur) /\ cur' # cur) => MovesOn
          /\ qpc' = "loop" /\ qpc = "loop" =>
                 \A i \in 1..Len(outcomes) : outcomes'[i] = outcomes[i]]_vars
    /\ (cur.state = "Processing") ~> Settled(cur)
    /\ (qpc = "loop") ~> (qpc = "returned" /\ Len(outcomes) = batchLen)

\* the loop has acknowledged a first message and marked the second retry
C20_Witness ==
    /\ Len(outcomes) = 1 /\ outcomes[1].acks = 1 /\ outcomes[1].retries = 0
    /\ cur.state = "Retryable" /\ cur.retries = 1 /\ cur.acks = 0

(***************************************************************************)
(* Properties of the chat session: analytics, isolation, ordering.         *)
(***************************************************************************)
\* the call got as far as trackChatInteraction and the tracking failed: its
\* request met a non-success response or a network error, or reply.length
\* raised inside the promise
TrackingFailed(call) ==
    \/ AnalyticsFailed(call)
    \/ /\ call.resp # "none"
       /\ call.ai.transport = "ok" /\ call.ai.body = "no_content"
       /\ call.message.t = "string" /\ call.sendOk

\* C21: a chat call whose chat-interaction tracking failed returns its reply,
\* has put its two turns, and has sent the lead payload exactly when its turn
\* is high-value.
C21_AnalyticsFailureInvisible ==
    (last.resp # "none" /\ TrackingFailed(last))
        => /\ last.resp = "ok"
           /\ last.puts = 1
           /\ storage[last.s] = updatedHistory(last)
           /\ last.sent = IF detectHighValueLead(last.message, last.reply)
                          THEN 1 ELSE 0

\* a high-value call whose tracking request met a network error
C21_Witness ==
    /\ last.resp = "ok" /\ last.isHighValue /\ last.sent = 1
    /\ Len(last.ga) = 1 /\ last.ga[1].res = "neterr"
    /\ Len(notifyQueue) = 1

\* C22: the history of a session changes only when a call on that session
\* ends, so a call on one key, successful or failed, leaves every other
\* session's history as it was; and a call loads the history stored under the
\* object named by its own key.
C22_SessionsIsolated ==
    [][/\ \A s \in Sessions :
              storage'[s] # storage[s] =>
                  \E c \in Slots : Ends(c) /\ calls[c].s = s
       /\ \A c \in Slots :
              (Starts(c) /\ Truthy(calls'[c].header)) =>
                  /\ calls'[c].s = idFromName(calls'[c].header.s)
                  /\ calls'[c].history = storage[idFromName(calls'[c].header.s)]]_vars

\* a call on k2 loaded an empty history and failed while k1 holds a pair,
\* and k2 still holds nothing
C22_Witness ==
    /\ last.resp = "error" /\ last.header = Str("k2") /\ last.history = <<>>
    /\ storage[idFromName("k1")] # <<>>
    /\ storage[idFromName("k2")] = <<>>

(***************************************************************************)
(* Properties of the queue consumer: redelivery, payloads, values.         *)
(***************************************************************************)
\* which channel methods were invoked and which requests went out
Attempted(sms, email) ==
    [sms |-> sms.called, smsOut |-> sms.out, email |-> email.called, emailOut |-> email.out]

\* C23: what a delivery does with a payload - the priority it is given (SMS
\* invoked or not), the channels attempted and the ack/retry outcome - is what
\* any other delivery of the same payload under the same bindings does,
\* whatever the sinks answer then; a further delivery repeats the requests.
C23_RedeliverySameResult ==
    Settled(cur) =>
        \A smsRes \in SinkResults, emailRes \in SinkResults,
           r1 \in SinkResults, r2 \in SinkResults :
            LET again == tryBlock(cur.body, env, smsRes, emailRes, r1, r2)
            IN /\ Attempted(again.sms, again.email) = Attempted(cur.sms, cur.email)
               /\ settle(again.threw).state = cur.state
               /\ settle(again.threw).acks = cur.acks
               /\ settle(again.threw).retries = cur.retries

\* two messages of a batch both notified by SMS and email and both marked
\* retry, as a payload and its redelivery are
C23_Witness ==
    /\ Len(outcomes) = 1 /\ outcomes[1].retries = 1
    /\ cur.state = "Retryable"
    /\ cur.sms.out /\ cur.email.out

\* C24: when the processing of a message ends, acknowledged or marked retry,
\* its body is field by field what it was when the loop took it.
C24_PayloadNotMutated ==
    [][(cur.state = "Processing" /\ Settled(cur')) => cur'.body = cur.body]_vars

\* a commercial estimate request without leadValue was notified as high
\* priority and still has no leadValue
C24_Witness ==
    /\ cur.state = "Acknowledged" /\ KindIs(cur, "estimate_request")
    /\ cur.sms.called /\ cur.email.out
    /\ cur.body.leadValue = Undef
    /\ cur.body.service = Str("Commercial Building")

\* C25 (as claimed): every form_submit event recorded for a message carries
\* a value from 25 to 150.
C25_FormSubmitValueRange ==
    Settled(cur) =>
        \A i \in 1..Len(cur.ga) :
            cur.ga[i].event.name = "form_submit" =>
                (cur.ga[i].event.value >= 25 /\ cur.ga[i].event.value <= 150)

\* C26 (as claimed): the chat_interaction event of a call carries value 25
\* and the label high_value_chat when the call returns isHighValue true, and
\* value 5 with the label chat_message otherwise.
C26_ChatInteractionValue ==
    last.resp = "ok" =>
        \A i \in 1..Len(last.ga) :
            last.ga[i].event.name = "chat_interaction" =>
                IF last.isHighValue
                THEN last.ga[i].event.value = 25
                     /\ last.ga[i].event.label = "high_value_chat"
                ELSE last.ga[i].event.value = 5
                     /\ last.ga[i].event.label = "chat_message"

(***************************************************************************)
(* Properties of the orchestrator worker.                                  *)
(***************************************************************************)
\* a request to /api/queue is handled in this step
HandlesQueueRequest == orch' # orch /\ orch'.handler = "queue"

\* C28: a request to /api/queue with a taskName sends one message carrying
\* it when TASK_QUEUE is bound, and is answered queued when the send is
\* accepted; with the binding missing it sends nothing and is answered
\* queued; without a taskName it is answered 400 and sends nothing.
C28_TaskQueueEndpoint ==
    [][HandlesQueueRequest =>
          LET body == orch'.body
          IN IF body.t = "object" /\ Truthy(body.taskName)
             THEN IF orchEnv.TASK_QUEUE
                  THEN \/ /\ orch'.resp = MkResponse(200, "queued")
                          /\ Len(taskQueue') = Len(taskQueue) + 1
                          /\ SubSeq(taskQueue', 1, Len(taskQueue)) = taskQueue
                          /\ taskQueue'[Len(taskQueue')].taskName = body.taskName
                       \/ /\ orch'.resp.status = 400
                          /\ taskQueue' = taskQueue
                  ELSE /\ orch'.resp = MkResponse(200, "queued")
                       /\ taskQueue' = taskQueue
             ELSE /\ orch'.resp.status = 400
                  /\ taskQueue' = taskQueue]_vars

\* with TASK_QUEUE missing a task was answered queued and nothing was sent
C28_Witness ==
    /\ orch.pc = "returned" /\ orch.handler = "queue"
    /\ ~orchEnv.TASK_QUEUE
    /\ orch.body.taskName = Str("sendFollowUpEmail")
    /\ orch.resp = MkResponse(200, "queued")
    /\ taskQueue = <<>>

KnownStepTypes == {Str("price"), Str("queue"), Str("enrich")}

\* C27: the results built so far are the entries of the first steps, in
\* order and one per step, each with its step's type, an unknown type giving
\* an error entry; a request answered with results has an entry for every
\* step; and a request whose steps are all objects is answered with results,
\* whatever types they name.
C27_AutomationResultsMatchSteps ==
    orch.handler = "automation" =>
        /\ Len(orch.results) <= Len(orch.steps)
        /\ \A i \in 1..Len(orch.results) :
               /\ orch.results[i].type = orch.steps[i].type
               /\ (orch.results[i].result = "error: Unknown step type")
                      <=> (orch.steps[i].type \notin KnownStepTypes)
        /\ (orch.pc = "returned" /\ orch.resp.status = 200)
               => (orch.resp.body = "results" /\ Len(orch.results) = Len(orch.steps))
        /\ (orch.pc = "returned" /\ orch.steps # <<>>
               /\ \A i \in 1..Len(orch.steps) : orch.steps[i].t = "object")
               => orch.resp.status = 200

\* a step of unknown type followed by a queue step: two entries, the first
\* an error, and the task of the second was sent
C27_Witness ==
    /\ orch.pc = "returned" /\ orch.handler = "automation"
    /\ orch.resp = MkResponse(200, "results")
    /\ Len(orch.steps) = 2
    /\ orch.steps[1].type = Str("paint") /\ orch.steps[2].type = Str("queue")
    /\ orch.results[1] = MkResult(Str("paint"), "error: Unknown step type")
    /\ orch.results[2] = MkResult(Str("queue"), "queued")
    /\ orch.sent = 1 /\ Len(taskQueue) >= 1

(***************************************************************************)
(* Properties of the chat session: order of effects, completion request.   *)
(***************************************************************************)
\* history h holds the user turn of `message` followed by the assistant
\* turn of `reply`
HoldsTurn(h, message, reply) ==
    \E j \in 1..(Len(h) - 1) :
        h[j] = userTurn(message) /\ h[j + 1] = assistantTurn(reply)

\* C29 (as claimed): for every lead payload in the queue some session's
\* persisted history holds the user and assistant turns the payload carries.
C29_PersistedBeforeEnqueued ==
    \A i \in 1..Len(notifyQueue) :
        \E s \in Sessions :
            HoldsTurn(storage[s], notifyQueue[i].message, notifyQueue[i].reply)

SmsConfigured ==
    env.TWILIO_ACCOUNT_SID /\ env.TWILIO_AUTH_TOKEN /\ env.TWILIO_PHONE_NUMBER

\* the record of one channel call, against whether its sink is configured
BooleanOfStatus(ch, configured) ==
    ch.called =>
        /\ ~ch.threw
        /\ ch.out = configured
        /\ ch.ok = (ch.out /\ ch.res = "ok")
        /\ ch.out => ch.res \in SinkResults

\* C31: sendSMS and sendEmail never let an error reach their caller: each
\* returns true exactly when an outbound call was made and its response
\* status was a success; it returns false, making no outbound call, when its
\* sink is not configured, and false on a non-success response and on a
\* network error.
C31_SinksReturnBoolean ==
    /\ BooleanOfStatus(cur.sms, SmsConfigured)
    /\ BooleanOfStatus(cur.email, env.SENDGRID_API_KEY)

\* a delivery whose SMS got a success status and whose email call hit a network
\* error: the first returned true, the second false, and the message was acked
C31_Witness ==
    /\ cur.sms.out /\ cur.sms.res = "ok" /\ cur.sms.ok
    /\ cur.email.out /\ cur.email.res = "neterr" /\ ~cur.email.ok
    /\ cur.acks = 1

\* the estimate handler sends a payload in this step
EstimateEnqueues ==
    /\ http.handler = "estimate"
    /\ http'.sent /\ ~http.sent

\* the payload sent in this step
Enqueued == notifyQueue'[Len(notifyQueue')]

\* C32: every payload the estimate handler enqueues has kind estimate_request
\* and no priority field of the caller's, whatever fields the submitted body
\* has, so a caller cannot choose the kind or the priority the consumer reads.
C32_EstimateKindFixed ==
    [][EstimateEnqueues =>
          /\ Enqueued.type = Str("estimate_request")
          /\ Enqueued.leadValue = Undef]_vars

\* the message being handled is the one the last request sent
HandlesSent == cur.state # "none" /\ http.sent

\* C33: the body the consumer reads has the type and fields of the payload
\* the producer built, and a delivered estimate_request is dispatched as an
\* estimate notification: its email is attempted before it is settled.
C33_PayloadRepresentationAgrees ==
    HandlesSent =>
        /\ \A f \in {"type", "service", "message", "page", "leadValue"} :
              Get(cur.body, f) = cur.body[f]
        /\ (Settled(cur) /\ cur.body.type = Str("estimate_request")) => cur.email.called

\* C34: a payload the estimate handler enqueues has its lead row in the table
\* already, and a request whose insert did not happen has enqueued nothing
\* and recorded no analytics event.
C34_RowBeforeEnqueue ==
    [][(http'.handler = "estimate") =>
          /\ EstimateEnqueues =>
                /\ http.row \in 1..Len(db)
                /\ db[http.row] = leadRow(http.data)
                /\ db' = db
          /\ http'.row = 0 => (~http'.sent /\ http'.events = <<>>)]_vars

\* the insert of a second submission failed: its request ended with nothing
\* enqueued and nothing recorded, the table holding the first lead only
C34_Witness ==
    /\ http.handler = "estimate" /\ http.pc = "threw"
    /\ http.data.t = "object" /\ http.row = 0
    /\ Len(db) = 1 /\ nHttp = 2
    /\ ~http.sent /\ http.events = <<>> /\ notifyQueue = <<>>

\* analytics records named `name` among the events a tracking call sent
Records(events, name) ==
    Cardinality({ i \in DOMAIN events : events[i].event.name = name })

\* records of one business event: those of the HTTP handler and those of the
\* consumer handling the message the handler sent
RecordedTimes(name) == Records(http.events, name) + Records(cur.ga, name)

\* C35: with the analytics sink configured, once the handler has ended and
\* the one delivery of its message has been settled, an estimate submission
\* has exactly one form_submit record and a phone click exactly one
\* phone_call record, the handler's and the consumer's counted together.
C35_RecordedExactlyOnce ==
    (env.GA_MEASUREMENT_ID /\ http.sent /\ HttpDone /\ Settled(cur)) =>
        /\ http.handler = "estimate" => RecordedTimes("form_submit") = 1
        /\ http.handler = "analytics" => RecordedTimes("phone_call") = 1

\* the analytics handler takes a step
AnalyticsStep == http' # http /\ http'.handler = "analytics"

\* C36: a step of the analytics handler changes the notification queue only
\* for a phone_click event, by appending one call_conversion payload with the
\* event's page; a phone_click answered with success has appended it.
C36_OnlyPhoneClickEnqueues ==
    [][AnalyticsStep =>
          /\ notifyQueue' # notifyQueue =>
                /\ http'.data.event = Str("phone_click")
                /\ notifyQueue' =
                       Append(notifyQueue,
                              MkBody("string", Str("call_conversion"), Undef, Undef,
                                     Undef, http'.data.page, Undef))
          /\ (http'.pc = "returned" /\ http'.status = 200
                 /\ http'.data.event = Str("phone_click")) =>
                Len(notifyQueue') = Len(notifyQueue) + 1]_vars

\* a phone click on a page was answered with success and its call_conversion
\* payload, carrying the page, is the one message in the queue
C36_Witness ==
    /\ http.handler = "analytics" /\ http.pc = "returned" /\ http.status = 200
    /\ http.data.event = Str("phone_click") /\ http.data.page = BodyPage
    /\ Len(notifyQueue) = 1
    /\ notifyQueue[1].type = Str("call_conversion")
    /\ notifyQueue[1].page = BodyPage

\* C37: a queue step of an automation is reported as queued only when the
\* task-queue handler accepted its task, that is answered with success.
C37_QueuedOnlyWhenAccepted ==
    \A i \in DOMAIN orch.results :
        orch.results[i].result = "queued" => orch.inner[i] = 200

====
